---- MODULE Spec2Model ----
(***************************************************************************)
(* Cloaked affiliate links: the weighted destination selector, the slug    *)
(* hooks of the Deals collection and the GET /go/:slug redirect handler.   *)
(*                                                                         *)
(* The repository holds two copies of the Deals code:                      *)
(*   impl 1  src/src/collections/Deals/index.ts  selector without          *)
(*           fallback, plain slug hook, handler registered in buildConfig  *)
(*   impl 2  src/unnamed/part_000  selector with the first-entry fallback  *)
(*           built in, sanitising slug hook, handler on the collection     *)
(* Both are modelled; impl says which copy a behaviour runs.               *)
(***************************************************************************)
EXTENDS Integers, Sequences, FiniteSets, TLC

\* ------------------------------------------------------------------ bounds
\* Longest destination list drawn as an input.
MaxLen == 3
\* Math.random() is discretised to r / Den, r \in 0 .. Den-1, i.e. [0, 1).
Den == 4
\* Longest slug string typed by an administrator or sent as a route parameter.
MaxSlugLen == 5
\* Times the beforeValidate hook runs on one field value (create, then re-save).
MaxSaves == 2

Impls == {1, 2}

\* ------------------------------------------------------------ destinations
\* JavaScript null / undefined of a string-valued expression.
NULL == "null"

\* url passes the field's validate: non-empty, starts with http:// or https://.
\* "http://" passes it although the URL parser rejects it.
Urls == {"https://a.example", "https://b.example", "http://"}

UrlParses(url) == url # "http://"

\* A weight is a number, or absent / null (hasWeight = FALSE, weight kept 0).
Dest(url, hasWeight, weight) == [url |-> url, hasWeight |-> hasWeight, weight |-> weight]

\* Weights the pure selector is exercised with (negative ones included).
SelectorEntries ==
    {Dest(u, TRUE, w) : u \in {"https://a.example", "https://b.example"}, w \in {-1, 0, 3}}
        \cup {Dest(u, FALSE, 0) : u \in {"https://a.example", "https://b.example"}}

\* Entries the collection can store: weight has min: 0.
StoredEntries ==
    {Dest(u, TRUE, w) : u \in {"https://a.example", "https://b.example"}, w \in {0, 2}}
        \cup {Dest(u, FALSE, 0) : u \in Urls}

RECURSIVE ListsUpTo(_, _)
ListsUpTo(S, n) ==
    IF n = 0 THEN {<<>>}
    ELSE LET shorter == ListsUpTo(S, n - 1)
         IN  shorter \cup {Append(l, e) : l \in {s \in shorter : Len(s) = n - 1}, e \in S}

\* An optional array: defined = FALSE is a null / undefined destinations value.
Absent == [defined |-> FALSE, items |-> <<>>]
Array(items) == [defined |-> TRUE, items |-> items]

\* --------------------------------------------------------------- selector
\* Mutant: dest.weight || 1, which also replaces a weight of 0 by 1.
WeightOr(dest) == IF dest.hasWeight /\ dest.weight # 0 THEN dest.weight ELSE 1

\* const weight = dest.weight ?? 1
Weight(dest) == IF dest.hasWeight THEN dest.weight ELSE 1

\* if (weight <= 0) continue
Skipped(weight) == weight <= 0

\* Mutant: the comparison turned round.
ReplacesFlipped(r, totalWeight, weight, den) == r * (totalWeight + weight) > weight * den

\* Mutant: <= in place of <.
ReplacesInclusive(r, totalWeight, weight, den) == r * (totalWeight + weight) <= weight * den

\* Math.random() * (totalWeight + weight) < weight, with Math.random() = r / den
Replaces(r, totalWeight, weight, den) == r * (totalWeight + weight) < weight * den

\* let selectedUrl = null; let totalWeight = 0
LoopInit == [selectedUrl |-> NULL, totalWeight |-> 0]

\* One iteration for a destination that is not skipped.
LoopBody(acc, dest, r, den) ==
    [selectedUrl |-> IF Replaces(r, acc.totalWeight, Weight(dest), den)
                     THEN dest.url ELSE acc.selectedUrl,
     totalWeight |-> acc.totalWeight + Weight(dest)]

\* for (const dest of destinations): draws are the successive Math.random() values,
\* one consumed per destination that is not skipped.
RECURSIVE Loop(_, _, _, _, _)
Loop(items, i, draws, acc, den) ==
    IF i > Len(items) THEN acc
    ELSE IF Skipped(Weight(items[i])) THEN Loop(items, i + 1, draws, acc, den)
    ELSE Loop(items, i + 1, Tail(draws), LoopBody(acc, items[i], Head(draws), den), den)

\* !selectedUrl
Falsy(url) == url = NULL \/ url = ""

\* impl 1: return selectedUrl
ReturnPlain(items, selectedUrl) == selectedUrl

\* Mutant: the fallback guarded by destinations.length > 1.
ReturnWithFallbackOffByOne(items, selectedUrl) ==
    IF Falsy(selectedUrl) /\ Len(items) > 1 THEN items[1].url ELSE selectedUrl

\* impl 2: if (!selectedUrl && destinations.length > 0) return destinations[0].url
ReturnWithFallback(items, selectedUrl) ==
    IF Falsy(selectedUrl) /\ Len(items) > 0 THEN items[1].url ELSE selectedUrl

ReturnValue(sImpl, items, selectedUrl) ==
    IF sImpl = 1 THEN ReturnPlain(items, selectedUrl) ELSE ReturnWithFallback(items, selectedUrl)

\* selectWeightedDestination of the copy sImpl, Math.random() returning draws[k] / den.
selectWeightedDestination(sImpl, destinations, draws, den) ==
    IF ~destinations.defined THEN NULL
    ELSE ReturnValue(sImpl, destinations.items,
                     Loop(destinations.items, 1, draws, LoopInit, den).selectedUrl)

\* Number of Math.random() calls the loop makes on items.
NumDraws(items) == Cardinality({i \in 1 .. Len(items) : ~Skipped(Weight(items[i]))})

DrawSeqs(n, den) == [1 .. n -> 0 .. den - 1]

\* ------------------------------------------------------------------ slugs
\* A string is a sequence of characters.
Chars == {"/", "g", "o", "a", " "}

Strings == UNION {[1 .. n -> Chars] : n \in 0 .. MaxSlugLen}

GoPrefix == <<"/", "g", "o", "/">>

\* value.startsWith(prefix)
StartsWith(value, prefix) ==
    Len(value) >= Len(prefix) /\ SubSeq(value, 1, Len(prefix)) = prefix

\* value.replace(/^\//, ''): one leading slash is removed.
StripLeadingSlash(value) ==
    IF Len(value) > 0 /\ Head(value) = "/" THEN Tail(value) ELSE value

RECURSIVE SkipWhitespace(_)
SkipWhitespace(value) ==
    IF Len(value) > 0 /\ Head(value) = " " THEN SkipWhitespace(Tail(value)) ELSE value

\* value.replace(/\s+/g, '-'): each run of whitespace becomes one '-'.
RECURSIVE ReplaceWhitespace(_)
ReplaceWhitespace(value) ==
    IF value = <<>> THEN <<>>
    ELSE IF Head(value) = " " THEN <<"-">> \o ReplaceWhitespace(SkipWhitespace(value))
    ELSE <<Head(value)>> \o ReplaceWhitespace(Tail(value))

\* impl 1: if (value && !value.startsWith('/go/')) return '/go/' + value; return value
beforeValidatePlain(value) ==
    IF value # <<>> /\ ~StartsWith(value, GoPrefix) THEN GoPrefix \o value ELSE value

\* impl 2: if (typeof value === 'string' && !value.startsWith('/go/'))
\*           return '/go/' + value.replace(/^\//, '').replace(/\s+/g, '-'); return value
beforeValidateSanitizing(value) ==
    IF ~StartsWith(value, GoPrefix)
    THEN GoPrefix \o ReplaceWhitespace(StripLeadingSlash(value))
    ELSE value

\* Mutant: the prefix is prepended without looking at the value.
beforeValidateAlways(sImpl, value) == GoPrefix \o value

\* The slug field's beforeValidate hook of the copy impl, on a string value.
beforeValidate(sImpl, value) ==
    IF sImpl = 1 THEN beforeValidatePlain(value) ELSE beforeValidateSanitizing(value)

VALID == "true"

\* The slug field's validate: true, or the error message.
validate(sImpl, val) ==
    IF ~StartsWith(val, GoPrefix)
    THEN IF sImpl = 1 THEN "Slug must start with /go/" ELSE "Slug must start with /go/."
    ELSE VALID

\* The handler's `/go/${slug}`: the prefix is prepended to the route parameter.
LookupSlug(slug) == GoPrefix \o slug

VARIABLES
    \* one call of the selector
    selImpl, selInput, selDraws, selResult, selDone,
    \* one slug value through the field's hook and validator, and as a route parameter
    slugImpl, slugInput, slugValue, slugRuns, slugValid, slugRequested, slugKey,
    \* one request through the handler
    impl, binding, docs, param, pc, key, found, selected, response, thrown, fault, finds,
    selects

selVars == <<selImpl, selInput, selDraws, selResult, selDone>>

slugVars == <<slugImpl, slugInput, slugValue, slugRuns, slugValid, slugRequested, slugKey>>

reqVars ==
    <<impl, binding, docs, param, pc, key, found, selected, response, thrown, fault, finds,
      selects>>

vars == <<selVars, slugVars, reqVars>>

NoResponse == [status |-> 0, body |-> "", location |-> ""]

\* The parts of the state a specification does not use stay as they are here.
SelectIdle ==
    /\ selImpl = 1 /\ selInput = Absent /\ selDraws = <<>>
    /\ selResult = NULL /\ selDone = FALSE

SlugIdle ==
    /\ slugImpl = 1 /\ slugInput = <<>> /\ slugValue = <<>> /\ slugRuns = 0
    /\ slugValid = "unchecked" /\ slugRequested = FALSE /\ slugKey = <<>>

RequestIdle ==
    /\ impl = 1 /\ binding = 1 /\ docs = <<>> /\ param = <<>> /\ pc = "Idle" /\ key = <<>>
    /\ found = <<>> /\ selected = NULL /\ response = NoResponse
    /\ thrown = "none" /\ fault = "none" /\ finds = 0 /\ selects = 0

InitSelect ==
    /\ SlugIdle /\ RequestIdle
    /\ selImpl \in Impls
    /\ selInput \in {Absent} \cup {Array(l) : l \in ListsUpTo(SelectorEntries, MaxLen)}
    /\ selDraws = <<>>
    /\ selResult = NULL
    /\ selDone = FALSE

\* One call of selectWeightedDestination(selInput).
Select ==
    /\ ~selDone
    /\ \E draws \in DrawSeqs(NumDraws(selInput.items), Den) :
          /\ selResult' = selectWeightedDestination(selImpl, selInput, draws, Den)
          /\ selDraws' = draws
    /\ selDone' = TRUE
    /\ UNCHANGED <<selImpl, selInput, slugVars, reqVars>>

NextSelect == Select

SpecSelect == InitSelect /\ [][NextSelect]_vars

\* ------------------------------------------------- selector: properties
\* The effective weight of the claims: the weight, or 1 when absent or null.
EffectiveWeight(dest) == IF dest.hasWeight THEN dest.weight ELSE 1

PositiveIndexes(items) == {i \in 1 .. Len(items) : EffectiveWeight(items[i]) > 0}

AllNonPositive(items) == PositiveIndexes(items) = {}

C2_SinglePositiveAlwaysReturned ==
    (selDone /\ selInput.defined /\ Cardinality(PositiveIndexes(selInput.items)) = 1)
        => \A i \in PositiveIndexes(selInput.items) : selResult = selInput.items[i].url

C2_Witness ==
    /\ selDone /\ selInput.defined
    /\ Len(selInput.items) = 3
    /\ PositiveIndexes(selInput.items) = {2}
    /\ ~selInput.items[2].hasWeight
    /\ selInput.items[1].url # selInput.items[2].url
    /\ selDraws = <<Den - 1>>
    /\ selResult = selInput.items[2].url

RECURSIVE GCD(_, _)
GCD(a, b) == IF b = 0 THEN a ELSE GCD(b, a % b)

LCM(a, b) == (a \div GCD(a, b)) * b

Frac(n, d) == <<n \div GCD(n, d), d \div GCD(n, d)>>

FracAdd(p, q) == Frac(p[1] * q[2] + q[1] * p[2], p[2] * q[2])

FracMul(p, q) == Frac(p[1] * q[1], p[2] * q[2])

RECURSIVE FracSum(_, _)
FracSum(S, f) ==
    IF S = {} THEN <<0, 1>>
    ELSE LET x == CHOOSE y \in S : TRUE IN FracAdd(f[x], FracSum(S \ {x}, f))

RECURSIVE SumOver(_, _)
SumOver(S, f) ==
    IF S = {} THEN 0 ELSE LET x == CHOOSE y \in S : TRUE IN f[x] + SumOver(S \ {x}, f)

\* The least common multiple of the running weight sums of items.
RECURSIVE CommonDen(_, _, _)
CommonDen(items, i, total) ==
    IF i > Len(items) THEN 1
    ELSE IF EffectiveWeight(items[i]) <= 0 THEN CommonDen(items, i + 1, total)
    ELSE LCM(total + EffectiveWeight(items[i]),
             CommonDen(items, i + 1, total + EffectiveWeight(items[i])))

\* The fraction of the draw sequences (each draw r / den, r \in 0 .. den-1, equally
\* likely) for the destinations from position i on, after which the selector,
\* having reached acc, returns url.
RECURSIVE Share(_, _, _, _, _, _)
Share(sImpl, items, i, acc, den, url) ==
    IF i > Len(items)
    THEN IF ReturnValue(sImpl, items, acc.selectedUrl) = url THEN <<1, 1>> ELSE <<0, 1>>
    ELSE IF Skipped(Weight(items[i])) THEN Share(sImpl, items, i + 1, acc, den, url)
    ELSE LET outcomes == {LoopBody(acc, items[i], r, den) : r \in 0 .. den - 1}
             part == [o \in outcomes |->
                 FracMul(Frac(Cardinality({r \in 0 .. den - 1 :
                                              LoopBody(acc, items[i], r, den) = o}), den),
                         Share(sImpl, items, i + 1, o, den, url))]
         IN  FracSum(outcomes, part)

\* C4: selection is proportional to weight. For positive weights and draws k / K,
\* K a common multiple of the running weight sums, the fraction of the draw
\* sequences for which select returns a url is the weight listed for that url
\* divided by the sum of all weights, whatever the order of the list. (The count
\* is over all draw sequences, so it is evaluated once per list and copy: at the
\* call whose own draws are all 0.)
C4_ProportionalToWeight ==
    (selDone /\ selInput.defined /\ Len(selInput.items) > 0
        /\ PositiveIndexes(selInput.items) = 1 .. Len(selInput.items)
        /\ selDraws = [i \in 1 .. Len(selInput.items) |-> 0])
        => LET items == selInput.items
               WeightAt == [i \in 1 .. Len(items) |-> EffectiveWeight(items[i])]
               total == SumOver(1 .. Len(items), WeightAt)
           IN  \A url \in {items[i].url : i \in 1 .. Len(items)} :
                   Share(selImpl, items, 1, LoopInit, CommonDen(items, 1, 0), url)
                       = Frac(SumOver({i \in 1 .. Len(items) : items[i].url = url}, WeightAt),
                              total)

C4_Witness ==
    /\ selDone /\ selInput.defined
    /\ Len(selInput.items) = 2
    /\ EffectiveWeight(selInput.items[1]) = 3 /\ EffectiveWeight(selInput.items[2]) = 1
    /\ selInput.items[1].url # selInput.items[2].url
    /\ selResult = selInput.items[2].url
    /\ Share(selImpl, selInput.items, 1, LoopInit, 4, selInput.items[1].url) = <<3, 4>>

\* ------------------------------------------------------- slug field: spec
InitSlug ==
    /\ SelectIdle /\ RequestIdle
    /\ slugImpl \in Impls
    /\ slugInput \in Strings
    /\ slugValue = slugInput
    /\ slugRuns = 0
    /\ slugValid = "unchecked"
    /\ slugRequested = FALSE
    /\ slugKey = <<>>

\* The beforeValidate hook runs on the field's value (on create and on every save).
RunBeforeValidate ==
    /\ slugRuns < MaxSaves
    /\ slugValue' = beforeValidate(slugImpl, slugValue)
    /\ slugRuns' = slugRuns + 1
    /\ slugValid' = "unchecked"
    /\ UNCHANGED <<slugImpl, slugInput, slugRequested, slugKey, selVars, reqVars>>

\* validate runs on the value the hook returned.
RunValidate ==
    /\ slugRuns >= 1
    /\ slugValid = "unchecked"
    /\ slugValid' = validate(slugImpl, slugValue)
    /\ UNCHANGED <<slugImpl, slugInput, slugValue, slugRuns, slugRequested, slugKey,
                   selVars, reqVars>>

\* A request arrives whose route parameter is slugInput: the handler builds its
\* lookup slug.
RequestLookup ==
    /\ ~slugRequested
    /\ slugRequested' = TRUE
    /\ slugKey' = LookupSlug(slugInput)
    /\ UNCHANGED <<slugImpl, slugInput, slugValue, slugRuns, slugValid, selVars, reqVars>>

NextSlug == RunBeforeValidate \/ RunValidate \/ RequestLookup

SpecSlug == InitSlug /\ [][NextSlug]_vars

\* ------------------------------------------------- slug field: properties
\* The canonical form of the claims: the slug itself when it starts with /go/,
\* else /go/ followed by the slug.
Canonical(slug) == IF StartsWith(slug, GoPrefix) THEN slug ELSE GoPrefix \o slug

\* C10 as stated: normalizing a slug that starts with /go/ returns it unchanged,
\* normalizing a bare remainder r returns /go/r, normalizing twice is normalizing
\* once, the normalized slug passes the validator, and a request with the bare or
\* the prefixed form is looked up under the same canonical slug.
C10_NormalizationConsistent ==
    /\ slugRuns >= 1 =>
          /\ slugValue = Canonical(slugInput)
          /\ beforeValidate(slugImpl, slugValue) = slugValue
          /\ slugValid # "unchecked" => slugValid = VALID
    /\ slugRequested => slugKey = Canonical(slugInput)

\* A remainder the hook of the copy sImpl prefixes without changing it.
KeptAsIs(sImpl, slug) ==
    IF sImpl = 1 THEN slug # <<>>
    ELSE (slug = <<>> \/ Head(slug) # "/") /\ \A i \in 1 .. Len(slug) : slug[i] # " "

\* C10 amended: the beforeValidate hook leaves a slug that starts with /go/
\* unchanged and is idempotent. For a bare remainder r it returns /go/r when r is
\* non-empty (impl 1) or has no leading slash and no whitespace (impl 2);
\* impl 1 returns the empty string unchanged, which fails the validator, and impl 2
\* strips one leading slash and turns each whitespace run into '-', so the result
\* starts with /go/ but is not /go/r. Every other normalized slug passes the
\* validator. The request handler does not normalize: it always looks up
\* /go/ + route parameter, so an already-prefixed parameter /go/r is looked up
\* under /go//go/r, not under /go/r.
C10_HookIdempotentHandlerPrepends ==
    /\ slugRuns >= 1 =>
          /\ StartsWith(slugInput, GoPrefix) => slugValue = slugInput
          /\ (~StartsWith(slugInput, GoPrefix) /\ KeptAsIs(slugImpl, slugInput))
                => slugValue = GoPrefix \o slugInput
          /\ (~StartsWith(slugInput, GoPrefix) /\ ~KeptAsIs(slugImpl, slugInput))
                => /\ slugValue # GoPrefix \o slugInput
                   /\ slugImpl = 1 => slugValue = <<>>
                   /\ slugImpl = 2 => StartsWith(slugValue, GoPrefix)
          /\ beforeValidate(slugImpl, slugValue) = slugValue
          /\ slugValid # "unchecked"
                => (slugValid = VALID <=> ~(slugImpl = 1 /\ slugInput = <<>>))
    /\ slugRequested =>
          /\ slugKey = GoPrefix \o slugInput
          /\ StartsWith(slugInput, GoPrefix) => slugKey # Canonical(slugInput)

C10_Witness ==
    /\ slugImpl = 2
    /\ slugInput = GoPrefix \o <<"a">>
    /\ slugRuns = 2
    /\ slugValue = slugInput
    /\ slugValid = VALID
    /\ slugRequested
    /\ slugKey = GoPrefix \o GoPrefix \o <<"a">>

\* ---------------------------------------------------- redirect handler
\* Mutant: a permanent redirect.
MovedPermanently == 300 + 1

\* Response.redirect(selectedDestinationURL, 302)
RedirectStatus == 302

\* new Response('Link not found', { status: 404 })
LinkNotFound == [status |-> 404, body |-> "Link not found", location |-> ""]

\* new Response('No destination URLs configured for this link.', { status: 404 })
NoDestinations ==
    [status |-> 404, body |-> "No destination URLs configured for this link.",
     location |-> ""]

\* new Response('No valid destination URL configured for this link.', { status: 500 })
NoValidDestination ==
    [status |-> 500, body |-> "No valid destination URL configured for this link.",
     location |-> ""]

\* new Response('Internal Server Error', { status: 500 })
InternalServerError == [status |-> 500, body |-> "Internal Server Error", location |-> ""]

\* Response.redirect(url, status): an empty body and the Location header. (The
\* platform serialises the parsed url into Location; the url is kept as written.)
Redirect(url) == [status |-> RedirectStatus, body |-> "", location |-> url]

\* Mutant: the fault leaves the handler.
Uncaught(exception) == [response |-> NoResponse, thrown |-> exception]

\* catch (error) { console.error(...); return new Response('Internal Server Error', ...) }
\* for an exception raised inside the try block.
Caught(exception) == [response |-> InternalServerError, thrown |-> "none"]

\* Mutant: more than one destination is asked for.
HasDestinationsStrict(destinationURLs) ==
    destinationURLs.defined /\ Len(destinationURLs.items) > 1

\* destinationURLs && destinationURLs.length > 0
HasDestinations(destinationURLs) ==
    destinationURLs.defined /\ Len(destinationURLs.items) > 0

\* req.payload.find({ collection: 'deals', where: { slug: { equals } }, limit: 1 }).docs
Find(collection, slug) ==
    LET hits == SelectSeq(collection, LAMBDA doc : doc.slug = slug)
    IN  IF Len(hits) > 1 THEN SubSeq(hits, 1, 1) ELSE hits

\* Values an administrator types into the slug field of the one stored link.
AdminSlugs == {<<"a">>, GoPrefix \o <<"a">>}

\* Route parameters of the request: the stored link's remainder, another
\* remainder, and the stored link's slug with its prefix.
Params == {<<"a">>, <<"o">>, GoPrefix \o <<"a">>}

\* The selectWeightedDestination a handler's call resolves to. The handler of
\* impl 2 calls the function of its own file. The file of impl 1 both declares the
\* function (line 7) and imports the name from './collections/Deals' (line 139),
\* so its call resolves to either copy.
Bindings(handler) == IF handler = 2 THEN {2} ELSE {1, 2}

\* The deals collection is empty or holds one link, saved through the slug hook
\* of the same copy; it is only read by the handler.
Init ==
    /\ SelectIdle /\ SlugIdle
    /\ impl \in Impls
    /\ binding \in Bindings(impl)
    /\ docs \in {<<>>} \cup
          {<<[slug |-> beforeValidate(impl, typed), destinationURLs |-> d]>> :
              typed \in AdminSlugs,
              d \in {Absent} \cup {Array(l) : l \in ListsUpTo(StoredEntries, MaxLen)}}
    /\ param \in Params
    /\ pc = "Start"
    /\ key = <<>>
    /\ found = <<>>
    /\ selected = NULL
    /\ response = NoResponse
    /\ thrown = "none"
    /\ fault = "none"
    /\ finds = 0
    /\ selects = 0

\* await addDataAndFileToRequest(req) (nothing to read on a GET request);
\* const { slug } = req.routeParams; the lookup slug `/go/${slug}`.
ExtractSlug ==
    /\ pc = "Start"
    /\ key' = LookupSlug(param)
    /\ pc' = "SlugNormalized"
    /\ UNCHANGED <<impl, binding, docs, param, found, selected, response, thrown, fault, finds,
                   selects, selVars, slugVars>>

\* await req.payload.find(...) resolves.
FindReturns ==
    /\ pc = "SlugNormalized"
    /\ finds' = finds + 1
    /\ found' = Find(docs, key)
    /\ pc' = "LookedUp"
    /\ UNCHANGED <<impl, binding, docs, param, key, selected, response, thrown, fault, selects,
                   selVars, slugVars>>

\* await req.payload.find(...) rejects: the catch block answers.
FindThrows ==
    /\ pc = "SlugNormalized"
    /\ finds' = finds + 1
    /\ fault' = "find"
    /\ response' = Caught("find").response
    /\ thrown' = Caught("find").thrown
    /\ pc' = "Responded"
    /\ UNCHANGED <<impl, binding, docs, param, key, found, selected, selects, selVars, slugVars>>

\* if (result.docs.length > 0) { if (destinationURLs && destinationURLs.length > 0)
\* ... else 404 } else 404
CheckDestinations ==
    /\ pc = "LookedUp"
    /\ IF Len(found) > 0
       THEN IF HasDestinations(found[1].destinationURLs)
            THEN pc' = "DestinationsChecked" /\ UNCHANGED response
            ELSE pc' = "Responded" /\ response' = NoDestinations
       ELSE pc' = "Responded" /\ response' = LinkNotFound
    /\ UNCHANGED <<impl, binding, docs, param, key, found, selected, thrown, fault, finds, selects,
                   selVars, slugVars>>

\* const selectedDestinationURL = selectWeightedDestination(destinationURLs)
SelectDestination ==
    /\ pc = "DestinationsChecked"
    /\ \E draws \in DrawSeqs(NumDraws(found[1].destinationURLs.items), Den) :
          selected' = selectWeightedDestination(binding, found[1].destinationURLs, draws,
                                                Den)
    /\ selects' = selects + 1
    /\ pc' = "Selected"
    /\ UNCHANGED <<impl, binding, docs, param, key, found, response, thrown, fault, finds,
                   selVars, slugVars>>

\* if (selectedDestinationURL) return Response.redirect(selectedDestinationURL, 302)
\* else return new Response('No valid destination URL ...', { status: 500 }).
\* Response.redirect throws a TypeError for a url that does not parse, inside the try.
Respond ==
    /\ pc = "Selected"
    /\ IF ~Falsy(selected)
       THEN IF UrlParses(selected)
            THEN response' = Redirect(selected) /\ UNCHANGED <<thrown, fault>>
            ELSE /\ fault' = "redirect"
                 /\ response' = Caught("redirect").response
                 /\ thrown' = Caught("redirect").thrown
       ELSE response' = NoValidDestination /\ UNCHANGED <<thrown, fault>>
    /\ pc' = "Responded"
    /\ UNCHANGED <<impl, binding, docs, param, key, found, selected, finds, selects,
                   selVars, slugVars>>

Next ==
    \/ ExtractSlug
    \/ FindReturns
    \/ FindThrows
    \/ CheckDestinations
    \/ SelectDestination
    \/ Respond

Spec == Init /\ [][Next]_vars

\* The lookup settles and the handler's synchronous code runs on: a request that
\* can take a step takes it.
FairSpec == Spec /\ WF_vars(Next)

\* ------------------------------------------- redirect handler: properties
\* The destination list of the record the lookup returned.
FoundItems == found[1].destinationURLs.items

FoundNonEmpty == Len(found) > 0 /\ found[1].destinationURLs.defined /\ Len(FoundItems) > 0

\* C5: a request whose slug has a stored record with a non-empty destination
\* list without any positive weight is answered with a 302 redirect to the first
\* entry's url. (Read in the claim's favour: the first entry's url parses.)
C5_FallbackToFirstEntry ==
    (pc = "Responded" /\ FoundNonEmpty /\ AllNonPositive(FoundItems)
        /\ UrlParses(FoundItems[1].url))
        => response = [status |-> 302, body |-> "", location |-> FoundItems[1].url]

\* C6: a fault raised by the storage lookup ends the request with
\* 500 "Internal Server Error"; no fault leaves the handler; the lookup is made
\* at most once per request.
C6_FaultsAnsweredWith500 ==
    /\ thrown = "none"
    /\ finds <= 1
    /\ fault # "none" =>
          /\ pc = "Responded"
          /\ response.status = 500 /\ response.body = "Internal Server Error"
    /\ (pc = "Responded" /\ finds = 1 /\ Len(found) = 0 /\ response.status = 500)
          => fault = "find"

C6_Witness ==
    /\ pc = "Responded" /\ fault = "find" /\ finds = 1
    /\ Len(docs) = 1 /\ key = docs[1].slug
    /\ response.status = 500

\* C7: a request is answered with 404 exactly when the lookup returns no record
\* (body "Link not found") or the record's destinationURLs is empty or absent
\* (body "No destination URLs configured for this link."), the selector is not
\* called in either case, the two bodies differ, and a found record with a
\* non-empty list never gets a 404.
C7_NotFoundExactlyTwoCases ==
    pc = "Responded" =>
        /\ response.status = 404 =>
              /\ selects = 0
              /\ \/ Len(found) = 0 /\ response.body = "Link not found"
                 \/ /\ Len(found) > 0 /\ ~FoundNonEmpty
                    /\ response.body = "No destination URLs configured for this link."
        /\ (fault = "none" /\ ~FoundNonEmpty) => response.status = 404
        /\ FoundNonEmpty => response.status # 404

C7_Witness ==
    /\ pc = "Responded" /\ Len(found) = 1
    /\ found[1].destinationURLs.defined /\ Len(FoundItems) = 0
    /\ response.status = 404
    /\ response.body # "Link not found"

\* The data-model invariants of a stored record: a non-empty destination list,
\* every url starting with http:// or https://, every weight non-negative or absent.
ValidRecord(doc) ==
    /\ doc.destinationURLs.defined /\ Len(doc.destinationURLs.items) > 0
    /\ \A i \in 1 .. Len(doc.destinationURLs.items) :
          /\ doc.destinationURLs.items[i].url \in Urls
          /\ doc.destinationURLs.items[i].hasWeight => doc.destinationURLs.items[i].weight >= 0

\* C8: no request for a record that satisfies the data-model invariants ends in
\* the 500 response "No valid destination URL configured for this link.".
C8_SelectionFailureUnreachable ==
    (pc = "Responded" /\ Len(found) > 0 /\ ValidRecord(found[1]))
        => ~(response.status = 500
             /\ response.body = "No valid destination URL configured for this link.")

PcRank ==
    CASE pc = "Start" -> 0
      [] pc = "SlugNormalized" -> 1
      [] pc = "LookedUp" -> 2
      [] pc = "DestinationsChecked" -> 3
      [] pc = "Selected" -> 4
      [] pc = "Responded" -> 5

\* Exactly one of the three result kinds: a 302 redirect to a url of the found
\* record, a 404, or a 500.
OneResultKind ==
    /\ response.status \in {302, 404, 500}
    /\ response.status = 302 <=> response.location # ""
    /\ response.status = 302 =>
          /\ FoundNonEmpty
          /\ \E i \in 1 .. Len(FoundItems) : FoundItems[i].url = response.location
          /\ response.body = ""
    /\ response.status # 302 => response.body # ""

\* C9: every request runs once through Start, SlugNormalized, LookedUp,
\* DestinationsChecked, Selected, Responded, never going back and never retrying,
\* and ends in Responded with exactly one result: a redirect (always 302, to a url
\* of the found record), a 404 or a 500.
C9_SinglePassToOneResult ==
    /\ [][PcRank' > PcRank /\ (pc = "Responded" => response' = response)]_vars
    /\ [](pc = "Responded" <=> response # NoResponse)
    /\ [](pc = "Responded" => OneResultKind)
    /\ <>(pc = "Responded")

C9_Witness ==
    /\ pc = "Responded" /\ response.status = 302
    /\ Len(FoundItems) = 2
    /\ response.location = FoundItems[2].url
    /\ FoundItems[1].url # FoundItems[2].url
    /\ finds = 1 /\ selects = 1
====
